---- MODULE Spec2Model ----
(***************************************************************************)
(* WENOEXT: the monotonicity limiter of the WENO upwind scheme             *)
(* (WENOUpwindFit<Type>::calcLimiter and its scalar specialisation) and    *)
(* the process-wide Stencil Store (WENOBase::instance).                    *)
(*                                                                         *)
(* Numbers are exact rationals <<n, d>> with d > 0 in lowest terms.  Field *)
(* values are measured in units of 1e-10, so the literal 1e-10 of the      *)
(* source is the rational Tol/1.                                           *)
(***************************************************************************)
EXTENDS Integers, Sequences, FiniteSets, TLC

VARIABLES
    mesh,       \* the fvMesh the scheme works on (topology only)
    faceFlux_,  \* WENOUpwindFit::faceFlux_
    limFac_,    \* WENOUpwindFit::limFac_
    vf,         \* cell averages: internal field and patchNeighbourField
    tsfP,       \* provisional owner-side face values; the corrections afterwards
    tsfN,       \* provisional neighbour-side face values
    theta,      \* calcLimiter's local Field theta, as it was left
    tsfP0,      \* history: tsfP as it was passed to calcLimiter
    Type,       \* the template argument of WENOUpwindFit: "scalar" or "vector"
    pc,         \* "ready" before calcLimiter, "done" after
    guard_,     \* the initialisation guard of the function-local static instance_
    instance_,  \* WENOBase::instance()'s static WENOBase instance_
    ctorRuns,   \* how many times WENOBase::WENOBase has run
    tpc,        \* per caller: where it stands in WENOBase::instance
    targ,       \* per caller: the (mesh, polOrder) it passed
    tref,       \* per caller: the instance the call returned
    hist        \* history: the calls that have returned, <<key, instance>>

limVars == <<mesh, faceFlux_, limFac_, vf, tsfP, tsfN, theta, tsfP0, Type, pc>>
storeVars == <<guard_, instance_, ctorRuns, tpc, targ, tref, hist>>
vars == <<limVars, storeVars>>

----------------------------------------------------------------------------
(* Bounds *)

\* cell averages are drawn from 0..MaxVal, provisional face values from
\* {0, 1, MaxVal}
MaxVal == 2

\* the limiting factor is drawn from {0/LimDen, ..., LimDen/LimDen}
LimDen == 2

----------------------------------------------------------------------------
(* Exact rational arithmetic for Foam::scalar *)

Abs(i) == IF i < 0 THEN -i ELSE i

RECURSIVE GCD(_, _)
GCD(a, b) == IF b = 0 THEN a ELSE GCD(b, a % b)

Norm(n, d) == LET g == GCD(Abs(n), d) IN <<n \div g, d \div g>>

R(i) == <<i, 1>>

RAdd(x, y) == Norm(x[1] * y[2] + y[1] * x[2], x[2] * y[2])
RSub(x, y) == Norm(x[1] * y[2] - y[1] * x[2], x[2] * y[2])
RMul(x, y) == Norm(x[1] * y[1], x[2] * y[2])
RDiv(x, y) == IF y[1] < 0 THEN Norm(-(x[1] * y[2]), x[2] * (-y[1]))
                          ELSE Norm(x[1] * y[2], x[2] * y[1])
RLt(x, y) == x[1] * y[2] < y[1] * x[2]
RLe(x, y) == x[1] * y[2] <= y[1] * x[2]

\* Foam::mag and Foam::min on scalars
mag(x) == <<Abs(x[1]), x[2]>>
min(x, y) == IF RLt(x, y) THEN x ELSE y

\* the literal 1e-10, in units of 1e-10
Tol == 1

\* FOAM List<T>: a function on 0..n-1
Arr(s) == [i \in 0..(Len(s) - 1) |-> s[i + 1]]

----------------------------------------------------------------------------
(* The meshes: mesh.owner(), mesh.neighbour(), mesh.cells(),               *)
(* mesh.nInternalFaces(), mesh.boundary()[patchI].faceCells(), coupled()   *)

\* three cells in a row, two internal faces, one wall patch at both ends
MeshLine ==
    [ name           |-> "line",
      nCells         |-> 3,
      nInternalFaces |-> 2,
      owner          |-> Arr(<<0, 1>>),
      neighbour      |-> Arr(<<1, 2>>),
      cells          |-> Arr(<< <<0, 2>>, <<0, 1>>, <<1, 3>> >>),
      boundary       |-> Arr(<< [coupled |-> FALSE, faceCells |-> Arr(<<0, 2>>)] >>) ]

\* two cells, one internal face, a processor patch at cell 1, a wall at cell 0
MeshProc ==
    [ name           |-> "proc",
      nCells         |-> 2,
      nInternalFaces |-> 1,
      owner          |-> Arr(<<0>>),
      neighbour      |-> Arr(<<1>>),
      cells          |-> Arr(<< <<0, 2>>, <<0, 1>> >>),
      boundary       |-> Arr(<< [coupled |-> TRUE,  faceCells |-> Arr(<<1>>)],
                                [coupled |-> FALSE, faceCells |-> Arr(<<0>>)] >>) ]

Meshes == {MeshLine, MeshProc}

Cells(m) == 0..(m.nCells - 1)
IntFaces(m) == 0..(m.nInternalFaces - 1)
Patches(m) == DOMAIN m.boundary
PatchFaces(m, patchI) == DOMAIN m.boundary[patchI].faceCells
CoupledFaces(m) ==
    {pf \in UNION {{<<p, i>> : i \in PatchFaces(m, p)} : p \in Patches(m)} :
        m.boundary[pf[1]].coupled}

----------------------------------------------------------------------------
(* WENOUpwindFit<scalar>::calcLimiter *)

\* ScalarMinMaxP scanning the owner-side value tsfP at every face of the cell,
\* also at the faces the cell is the neighbour of
ScalarMinMaxP_OwnerSideOnly(m, vfI, tP, tN, cellI) ==
    LET faces == m.cells[cellI]
        scan[k \in 0..Len(faces)] ==
            IF k = 0 THEN [maxP |-> vfI[cellI], minP |-> vfI[cellI]]
            ELSE LET s == scan[k - 1]
                     f == faces[k]
                 IN IF f < m.nInternalFaces
                    THEN IF RLt(s.maxP, tP.int[f])
                         THEN [s EXCEPT !.maxP = tP.int[f]]
                         ELSE IF RLt(tP.int[f], s.minP)
                              THEN [s EXCEPT !.minP = tP.int[f]]
                              ELSE s
                    ELSE s
    IN scan[Len(faces)]

\* lines 447-477: maxP and minP of cell cellI after the loop over its faces
ScalarMinMaxP(m, vfI, tP, tN, cellI) ==
    LET faces == m.cells[cellI]
        P == m.owner
        scan[k \in 0..Len(faces)] ==
            IF k = 0 THEN [maxP |-> vfI[cellI], minP |-> vfI[cellI]]
            ELSE LET s == scan[k - 1]
                     f == faces[k]
                 IN IF f < m.nInternalFaces
                    THEN IF cellI = P[f]
                         THEN IF RLt(s.maxP, tP.int[f])
                              THEN [s EXCEPT !.maxP = tP.int[f]]
                              ELSE IF RLt(tP.int[f], s.minP)
                                   THEN [s EXCEPT !.minP = tP.int[f]]
                                   ELSE s
                         ELSE IF RLt(s.maxP, tN.int[f])
                              THEN [s EXCEPT !.maxP = tN.int[f]]
                              ELSE IF RLt(tN.int[f], s.minP)
                                   THEN [s EXCEPT !.minP = tN.int[f]]
                                   ELSE s
                    ELSE s
    IN scan[Len(faces)]

\* max(vfI), min(vfI) of a scalarField
ScalarFieldMax(vfI) ==
    CHOOSE x \in {vfI[c] : c \in DOMAIN vfI} : \A c \in DOMAIN vfI : RLe(vfI[c], x)
ScalarFieldMin(vfI) ==
    CHOOSE x \in {vfI[c] : c \in DOMAIN vfI} : \A c \in DOMAIN vfI : RLe(x, vfI[c])

\* ScalarThetaCell with argMin left out of the minimum: undershoots are not cut
ScalarThetaCell_NoArgMin(m, vfI, tP, tN, cellI) ==
    LET mm == ScalarMinMaxP(m, vfI, tP, tN, cellI)
        maxPhi == ScalarFieldMax(vfI)
        argMax == IF RLt(mag(RSub(mm.maxP, vfI[cellI])), R(Tol))
                  THEN R(1)
                  ELSE mag(RDiv(RSub(maxPhi, vfI[cellI]), RSub(mm.maxP, vfI[cellI])))
    IN min(argMax, R(1))

\* ScalarThetaCell without the cap at 1.0: theta is min(argMax, argMin)
ScalarThetaCell_NoCap(m, vfI, tP, tN, cellI) ==
    LET mm == ScalarMinMaxP(m, vfI, tP, tN, cellI)
        maxPhi == ScalarFieldMax(vfI)
        minPhi == ScalarFieldMin(vfI)
        argMax == IF RLt(mag(RSub(mm.maxP, vfI[cellI])), R(Tol))
                  THEN R(1)
                  ELSE mag(RDiv(RSub(maxPhi, vfI[cellI]), RSub(mm.maxP, vfI[cellI])))
        argMin == IF RLt(mag(RSub(mm.minP, vfI[cellI])), R(Tol))
                  THEN R(1)
                  ELSE mag(RDiv(RSub(minPhi, vfI[cellI]), RSub(mm.minP, vfI[cellI])))
    IN min(argMax, argMin)

\* lines 479-497: theta[cellI]
ScalarThetaCell(m, vfI, tP, tN, cellI) ==
    LET mm == ScalarMinMaxP(m, vfI, tP, tN, cellI)
        maxPhi == ScalarFieldMax(vfI)
        minPhi == ScalarFieldMin(vfI)
        argMax == IF RLt(mag(RSub(mm.maxP, vfI[cellI])), R(Tol))
                  THEN R(1)
                  ELSE mag(RDiv(RSub(maxPhi, vfI[cellI]), RSub(mm.maxP, vfI[cellI])))
        argMin == IF RLt(mag(RSub(mm.minP, vfI[cellI])), R(Tol))
                  THEN R(1)
                  ELSE mag(RDiv(RSub(minPhi, vfI[cellI]), RSub(mm.minP, vfI[cellI])))
    IN min(min(argMax, argMin), R(1))

\* lines 443-498: the loop over the cells
ScalarTheta(m, vfI, tP, tN) ==
    [cellI \in Cells(m) |-> ScalarThetaCell(m, vfI, tP, tN, cellI)]

\* ScalarBlend with the weights limFac_ and 1 - limFac_ exchanged
ScalarBlend_SwappedWeights(lf, th, t, v) ==
    RSub(RAdd(RMul(RSub(R(1), lf), RAdd(RMul(th, RSub(t, v)), v)),
              RMul(lf, t)),
         v)

\* lines 506-510 (and 514-518, 552-556, 560-564): the blended face value, less
\* the donor's average
ScalarBlend(lf, th, t, v) ==
    RSub(RAdd(RMul(lf, RAdd(RMul(th, RSub(t, v)), v)),
              RMul(RSub(R(1), lf), t)),
         v)

\* ScalarInternalFace without the zero-flux branch: a zero flux is taken as inflow
ScalarInternalFace_NoZeroBranch(m, flux, lf, th, vfI, tP, tN, faceI) ==
    LET P == m.owner
        N == m.neighbour
    IN IF flux.int[faceI] > 0
       THEN ScalarBlend(lf, th[P[faceI]], tP.int[faceI], vfI[P[faceI]])
       ELSE ScalarBlend(lf, th[N[faceI]], tN.int[faceI], vfI[N[faceI]])

\* ScalarInternalFace with the owner taken as the donor whatever the sign of
\* the flux
ScalarInternalFace_OwnerDonor(m, flux, lf, th, vfI, tP, tN, faceI) ==
    LET P == m.owner
    IN IF flux.int[faceI] > 0
       THEN ScalarBlend(lf, th[P[faceI]], tP.int[faceI], vfI[P[faceI]])
       ELSE IF flux.int[faceI] < 0
            THEN ScalarBlend(lf, th[P[faceI]], tP.int[faceI], vfI[P[faceI]])
            ELSE R(0)

\* lines 504-523: one pass of the loop over the internal faces
ScalarInternalFace(m, flux, lf, th, vfI, tP, tN, faceI) ==
    LET P == m.owner
        N == m.neighbour
    IN IF flux.int[faceI] > 0
       THEN ScalarBlend(lf, th[P[faceI]], tP.int[faceI], vfI[P[faceI]])
       ELSE IF flux.int[faceI] < 0
            THEN ScalarBlend(lf, th[N[faceI]], tN.int[faceI], vfI[N[faceI]])
            ELSE R(0)

\* ScalarCoupledFace with the inflow value limited by the owner's theta
ScalarCoupledFace_LimitedInflow(m, flux, lf, th, v, tP, tN, patchI, faceI) ==
    LET own == m.boundary[patchI].faceCells[faceI]
        pFaceFlux == flux.bnd[patchI]
        vfN == v.nbr[patchI]
    IN IF pFaceFlux[faceI] > 0
       THEN ScalarBlend(lf, th[own], tP.bnd[patchI][faceI], v.int[own])
       ELSE IF pFaceFlux[faceI] < 0
            THEN ScalarBlend(lf, th[own], tN.bnd[patchI][faceI], vfN[faceI])
            ELSE R(0)

\* lines 548-569: one pass of the loop over the faces of a coupled patch
ScalarCoupledFace(m, flux, lf, th, v, tP, tN, patchI, faceI) ==
    LET own == m.boundary[patchI].faceCells[faceI]
        pFaceFlux == flux.bnd[patchI]
        vfN == v.nbr[patchI]
    IN IF pFaceFlux[faceI] > 0
       THEN ScalarBlend(lf, th[own], tP.bnd[patchI][faceI], v.int[own])
       ELSE IF pFaceFlux[faceI] < 0
            THEN ScalarBlend(lf, R(1), tN.bnd[patchI][faceI], vfN[faceI])
            ELSE R(0)

\* lines 419-573: tsfP as calcLimiter leaves it
ScalarCalcLimiter(m, flux, lf, v, tP, tN) ==
    LET th == ScalarTheta(m, v.int, tP, tN)
    IN [ int |-> [faceI \in IntFaces(m) |->
                    ScalarInternalFace(m, flux, lf, th, v.int, tP, tN, faceI)],
         bnd |-> [patchI \in Patches(m) |->
                    IF m.boundary[patchI].coupled
                    THEN [faceI \in PatchFaces(m, patchI) |->
                            ScalarCoupledFace(m, flux, lf, th, v, tP, tN, patchI, faceI)]
                    ELSE tP.bnd[patchI]] ]

----------------------------------------------------------------------------
(* WENOUpwindFit<Type>::calcLimiter, Type a VectorSpace with components    *)
(* Comps; a Type value is a function on Comps                              *)

\* the component indices 0..nComp-1 of Type (line 239), here a vector2D
Comps == {0, 1}

\* pTraits<Type>::zero
TypeZero == [cI \in Comps |-> R(0)]

\* FieldMax taking the largest component of the cell averages for every component
FieldMax_OverComponents(vfI) ==
    [cI \in Comps |->
        CHOOSE x \in {vfI[c][cJ] : c \in DOMAIN vfI, cJ \in Comps} :
            \A c \in DOMAIN vfI : \A cJ \in Comps : RLe(vfI[c][cJ], x)]

\* max(vfI), min(vfI) of a Field<Type>: component by component
FieldMax(vfI) ==
    [cI \in Comps |->
        CHOOSE x \in {vfI[c][cI] : c \in DOMAIN vfI} :
            \A c \in DOMAIN vfI : RLe(vfI[c][cI], x)]
FieldMin(vfI) ==
    [cI \in Comps |->
        CHOOSE x \in {vfI[c][cI] : c \in DOMAIN vfI} :
            \A c \in DOMAIN vfI : RLe(x, vfI[c][cI])]

\* lines 258-290: maxP[cI] and minP[cI] of cell cellI after the loop over its faces
MinMaxP(m, vfI, tP, tN, cellI, cI) ==
    LET faces == m.cells[cellI]
        P == m.owner
        scan[k \in 0..Len(faces)] ==
            IF k = 0 THEN [maxP |-> vfI[cellI][cI], minP |-> vfI[cellI][cI]]
            ELSE LET s == scan[k - 1]
                     f == faces[k]
                 IN IF f < m.nInternalFaces
                    THEN IF cellI = P[f]
                         THEN IF RLt(s.maxP, tP.int[f][cI])
                              THEN [s EXCEPT !.maxP = tP.int[f][cI]]
                              ELSE IF RLt(tP.int[f][cI], s.minP)
                                   THEN [s EXCEPT !.minP = tP.int[f][cI]]
                                   ELSE s
                         ELSE IF RLt(s.maxP, tN.int[f][cI])
                              THEN [s EXCEPT !.maxP = tN.int[f][cI]]
                              ELSE IF RLt(tN.int[f][cI], s.minP)
                                   THEN [s EXCEPT !.minP = tN.int[f][cI]]
                                   ELSE s
                    ELSE s
    IN scan[Len(faces)]

\* lines 292-314: theta[cellI][cI]
ThetaCell(m, vfI, tP, tN, cellI, cI) ==
    LET mm == MinMaxP(m, vfI, tP, tN, cellI, cI)
        maxPhi == FieldMax(vfI)
        minPhi == FieldMin(vfI)
        argMax == IF RLt(mag(RSub(mm.maxP, vfI[cellI][cI])), R(Tol))
                  THEN R(1)
                  ELSE mag(RDiv(RSub(maxPhi[cI], vfI[cellI][cI]),
                                RSub(mm.maxP, vfI[cellI][cI])))
        argMin == IF RLt(mag(RSub(mm.minP, vfI[cellI][cI])), R(Tol))
                  THEN R(1)
                  ELSE mag(RDiv(RSub(minPhi[cI], vfI[cellI][cI]),
                                RSub(mm.minP, vfI[cellI][cI])))
    IN min(min(argMax, argMin), R(1))

\* lines 254-316: the loop over the cells
Theta(m, vfI, tP, tN) ==
    [cellI \in Cells(m) |-> [cI \in Comps |-> ThetaCell(m, vfI, tP, tN, cellI, cI)]]

\* Blend with the donor average left out of the limited value
Blend_NoDonorTerm(lf, th, t, v) ==
    RSub(RAdd(RMul(lf, RMul(th, RSub(t, v))),
              RMul(RSub(R(1), lf), t)),
         v)

\* lines 326-332 (and 339-345, 384-390, 397-403): the blended face value of one
\* component, less the donor's average
Blend(lf, th, t, v) ==
    RSub(RAdd(RMul(lf, RAdd(RMul(th, RSub(t, v)), v)),
              RMul(RSub(R(1), lf), t)),
         v)

\* lines 322-351: one pass of the loop over the internal faces
InternalFace(m, flux, lf, th, vfI, tP, tN, faceI) ==
    LET P == m.owner
        N == m.neighbour
    IN IF flux.int[faceI] > 0
       THEN [cI \in Comps |->
                Blend(lf, th[P[faceI]][cI], tP.int[faceI][cI], vfI[P[faceI]][cI])]
       ELSE IF flux.int[faceI] < 0
            THEN [cI \in Comps |->
                    Blend(lf, th[N[faceI]][cI], tN.int[faceI][cI], vfI[N[faceI]][cI])]
            ELSE TypeZero

\* CoupledFace with the inflow value limited by the owner's theta
CoupledFace_LimitedInflow(m, flux, lf, th, v, tP, tN, patchI, faceI) ==
    LET own == m.boundary[patchI].faceCells[faceI]
        pFaceFlux == flux.bnd[patchI]
        vfN == v.nbr[patchI]
    IN IF pFaceFlux[faceI] > 0
       THEN [cI \in Comps |->
                Blend(lf, th[own][cI], tP.bnd[patchI][faceI][cI], v.int[own][cI])]
       ELSE IF pFaceFlux[faceI] < 0
            THEN [cI \in Comps |->
                    Blend(lf, th[own][cI], tN.bnd[patchI][faceI][cI], vfN[faceI][cI])]
            ELSE TypeZero

\* lines 378-409: one pass of the loop over the faces of a coupled patch
CoupledFace(m, flux, lf, th, v, tP, tN, patchI, faceI) ==
    LET own == m.boundary[patchI].faceCells[faceI]
        pFaceFlux == flux.bnd[patchI]
        vfN == v.nbr[patchI]
    IN IF pFaceFlux[faceI] > 0
       THEN [cI \in Comps |->
                Blend(lf, th[own][cI], tP.bnd[patchI][faceI][cI], v.int[own][cI])]
       ELSE IF pFaceFlux[faceI] < 0
            THEN [cI \in Comps |->
                    Blend(lf, R(1), tN.bnd[patchI][faceI][cI], vfN[faceI][cI])]
            ELSE TypeZero

\* lines 226-413: tsfP as calcLimiter leaves it
CalcLimiter(m, flux, lf, v, tP, tN) ==
    LET th == Theta(m, v.int, tP, tN)
    IN [ int |-> [faceI \in IntFaces(m) |->
                    InternalFace(m, flux, lf, th, v.int, tP, tN, faceI)],
         bnd |-> [patchI \in Patches(m) |->
                    IF m.boundary[patchI].coupled
                    THEN [faceI \in PatchFaces(m, patchI) |->
                            CoupledFace(m, flux, lf, th, v, tP, tN, patchI, faceI)]
                    ELSE tP.bnd[patchI]] ]

----------------------------------------------------------------------------
(* WENOUpwindFit::weights *)

\* Foam::pos on a scalar: 1 where it is not negative, else 0
pos(x) == IF x >= 0 THEN 1 ELSE 0

\* lines 196-202: pos(faceFlux_), face by face
weights(m, flux) ==
    [ int |-> [faceI \in IntFaces(m) |-> pos(flux.int[faceI])],
      bnd |-> [patchI \in Patches(m) |->
                [faceI \in PatchFaces(m, patchI) |-> pos(flux.bnd[patchI][faceI])]] ]

----------------------------------------------------------------------------
(* Inputs *)

Vals == {R(i) : i \in 0..MaxVal}
FaceVals == {R(0), R(1), R(MaxVal)}
LimFacs == {Norm(i, LimDen) : i \in 0..LimDen}
Fluxes == {-1, 0, 1}

\* a boundary field: values from S on the coupled patches, z elsewhere
BndFields(m, S, z) ==
    LET one(patchI) == IF m.boundary[patchI].coupled
                       THEN [PatchFaces(m, patchI) -> S]
                       ELSE {[i \in PatchFaces(m, patchI) |-> z]}
    IN {b \in [Patches(m) -> UNION {one(p) : p \in Patches(m)}] :
            \A p \in Patches(m) : b[p] \in one(p)}

SurfaceFields(m, S, z) ==
    {[int |-> i, bnd |-> b] : i \in [IntFaces(m) -> S], b \in BndFields(m, S, z)}

VolFields(m, S, z) ==
    {[int |-> i, nbr |-> b] : i \in [Cells(m) -> S], b \in BndFields(m, S, z)}

----------------------------------------------------------------------------
(* The scalar scheme: construction, then calcLimiter *)

InitScalar ==
    /\ Type = "scalar"
    /\ mesh \in Meshes
    /\ faceFlux_ \in SurfaceFields(mesh, Fluxes, 0)
    /\ limFac_ \in LimFacs
    /\ vf \in VolFields(mesh, Vals, R(0))
    /\ tsfP \in SurfaceFields(mesh, FaceVals, R(0))
    /\ tsfN \in SurfaceFields(mesh, FaceVals, R(0))
    /\ theta = [cellI \in Cells(mesh) |-> R(0)]
    /\ tsfP0 = tsfP
    /\ pc = "ready"

calcLimiter ==
    /\ Type = "scalar"
    /\ pc = "ready"
    /\ theta' = ScalarTheta(mesh, vf.int, tsfP, tsfN)
    /\ tsfP' = ScalarCalcLimiter(mesh, faceFlux_, limFac_, vf, tsfP, tsfN)
    /\ pc' = "done"
    /\ UNCHANGED <<mesh, faceFlux_, limFac_, vf, tsfN, tsfP0, Type>>
    /\ UNCHANGED storeVars

----------------------------------------------------------------------------
(* The generic scheme on a vector field: construction, then calcLimiter *)

\* A vector field lifted from a scalar field s and uniform values u: component
\* fc takes the values of s, every other component cI is u[cI] everywhere (the
\* boundary values of a patch that is not coupled stay zero).
VecBnd(m, b, u, fc) ==
    [patchI \in Patches(m) |->
        IF m.boundary[patchI].coupled
        THEN [i \in PatchFaces(m, patchI) |->
                [cI \in Comps |-> IF cI = fc THEN b[patchI][i] ELSE u[cI]]]
        ELSE [i \in PatchFaces(m, patchI) |-> TypeZero]]

VecSurface(m, s, u, fc) ==
    [ int |-> [f \in IntFaces(m) |-> [cI \in Comps |-> IF cI = fc THEN s.int[f] ELSE u[cI]]],
      bnd |-> VecBnd(m, s.bnd, u, fc) ]

VecVol(m, s, u, fc) ==
    [ int |-> [c \in Cells(m) |-> [cI \in Comps |-> IF cI = fc THEN s.int[c] ELSE u[cI]]],
      nbr |-> VecBnd(m, s.nbr, u, fc) ]

\* cell averages of a vector field: each component 1 or MaxVal
VecCellVals == {R(1), R(MaxVal)}
\* provisional face values of a vector field: each component 0 or MaxVal
VecFaceVals == {R(0), R(MaxVal)}

InitVec ==
    /\ Type = "vector"
    /\ mesh \in Meshes
    /\ faceFlux_ \in SurfaceFields(mesh, Fluxes, 0)
    /\ limFac_ \in LimFacs
    /\ \E fc \in Comps :
        /\ vf \in {VecVol(mesh, s, u, fc) :
                        s \in VolFields(mesh, VecCellVals, R(0)),
                        u \in [Comps -> VecCellVals]}
        /\ tsfP \in {VecSurface(mesh, s, u, fc) :
                        s \in SurfaceFields(mesh, VecFaceVals, R(0)),
                        u \in [Comps -> VecFaceVals]}
        /\ tsfN \in {VecSurface(mesh, s, u, fc) :
                        s \in SurfaceFields(mesh, VecFaceVals, R(0)),
                        u \in [Comps -> VecFaceVals]}
    /\ theta = [cellI \in Cells(mesh) |-> TypeZero]
    /\ tsfP0 = tsfP
    /\ pc = "ready"

calcLimiterType ==
    /\ Type = "vector"
    /\ pc = "ready"
    /\ theta' = Theta(mesh, vf.int, tsfP, tsfN)
    /\ tsfP' = CalcLimiter(mesh, faceFlux_, limFac_, vf, tsfP, tsfN)
    /\ pc' = "done"
    /\ UNCHANGED <<mesh, faceFlux_, limFac_, vf, tsfN, tsfP0, Type>>
    /\ UNCHANGED storeVars

----------------------------------------------------------------------------
(* The Stencil Store: WENOBase and its accessor WENOBase::instance *)

\* callers of WENOBase::instance, and how many calls are made in all
NThreads == 2
MaxCalls == 3

Threads == 1..NThreads

\* the keys a caller may pass: mesh identity and polynomial order
MeshIds == {"line", "proc"}
PolOrders == {2, 3}
Keys == MeshIds \X PolOrders

\* the cached lists of WENOBase (lines 89-139) behind its accessors
TableNames ==
    {"stencilsID_", "haloCenters_", "ownHalos_", "cellToPatchMap_",
     "patchToProcMap_", "intBasTrans_", "refFacAr_", "dimList_", "LSmatrix_", "B_"}

\* instance_ before its initialisation
NoInstance == [id |-> 0, complete |-> FALSE, key |-> <<>>, tables |-> <<>>]

\* WENOBase::WENOBase(mesh, polOrder): every list is computed for that mesh
\* and that order
WENOBaseCtor(k, n) ==
    [id |-> n, complete |-> TRUE, key |-> k,
     tables |-> [name \in TableNames |-> <<name, k[1], k[2]>>]]

StoreIdle ==
    /\ guard_ = "uninit"
    /\ instance_ = NoInstance
    /\ ctorRuns = 0
    /\ tpc = [t \in Threads |-> "idle"]
    /\ targ = [t \in Threads |-> <<>>]
    /\ tref = [t \in Threads |-> 0]
    /\ hist = <<>>

InFlight == {t \in Threads : tpc[t] # "idle"}

\* a caller enters WENOBase::instance(mesh, polOrder)
Call(t, k) ==
    /\ tpc[t] = "idle"
    /\ Len(hist) + Cardinality(InFlight) < MaxCalls
    /\ tpc' = [tpc EXCEPT ![t] = "enter"]
    /\ targ' = [targ EXCEPT ![t] = k]
    /\ UNCHANGED <<guard_, instance_, ctorRuns, tref, hist>>
    /\ UNCHANGED limVars

\* BeginInit without the static: every call that finds no construction under
\* way constructs an instance of its own
BeginInit_EveryCall(t) ==
    /\ tpc[t] = "enter"
    /\ guard_ \in {"uninit", "done"}
    /\ ctorRuns < MaxCalls
    /\ guard_' = "busy"
    /\ ctorRuns' = ctorRuns + 1
    /\ instance_' = NoInstance
    /\ tpc' = [tpc EXCEPT ![t] = "ctor"]
    /\ UNCHANGED <<targ, tref, hist>>
    /\ UNCHANGED limVars

\* BeginInit without the lock of the guard: a caller that finds the object not
\* yet initialised constructs it, whether or not another caller is doing so
BeginInit_NoLock(t) ==
    /\ tpc[t] = "enter"
    /\ guard_ \in {"uninit", "busy"}
    /\ ctorRuns < MaxCalls
    /\ guard_' = "busy"
    /\ ctorRuns' = ctorRuns + 1
    /\ tpc' = [tpc EXCEPT ![t] = "ctor"]
    /\ UNCHANGED <<instance_, targ, tref, hist>>
    /\ UNCHANGED limVars

\* line 234, first pass: the static is not initialised and nobody is
\* initialising it: this caller takes the guard and runs the constructor (a
\* caller that finds the guard taken waits at the declaration)
BeginInit(t) ==
    /\ tpc[t] = "enter"
    /\ guard_ = "uninit"
    /\ guard_' = "busy"
    /\ ctorRuns' = ctorRuns + 1
    /\ tpc' = [tpc EXCEPT ![t] = "ctor"]
    /\ UNCHANGED <<instance_, targ, tref, hist>>
    /\ UNCHANGED limVars

\* lines 234-238: the constructor returns, with the arguments of this caller
FinishInit(t) ==
    /\ tpc[t] = "ctor"
    /\ instance_' = WENOBaseCtor(targ[t], ctorRuns)
    /\ guard_' = "done"
    /\ tpc' = [tpc EXCEPT ![t] = "enter"]
    /\ UNCHANGED <<ctorRuns, targ, tref, hist>>
    /\ UNCHANGED limVars

\* line 240: return instance_, once the static is initialised
Return(t) ==
    /\ tpc[t] = "enter"
    /\ guard_ = "done"
    /\ tref' = [tref EXCEPT ![t] = instance_.id]
    /\ hist' = Append(hist, [key |-> targ[t], ref |-> instance_.id,
                             builtFor |-> instance_.key])
    /\ tpc' = [tpc EXCEPT ![t] = "have"]
    /\ UNCHANGED <<guard_, instance_, ctorRuns, targ>>
    /\ UNCHANGED limVars

\* getPointer with the list emptied as its address is handed out
getPointer_Clears(t) ==
    /\ tpc[t] = "have"
    /\ \E name \in TableNames :
        instance_' = [instance_ EXCEPT !.tables[name] = <<>>]
    /\ tpc' = [tpc EXCEPT ![t] = "ptr"]
    /\ UNCHANGED <<guard_, ctorRuns, targ, tref, hist>>
    /\ UNCHANGED limVars

\* lines 244-283: getPointerStencilID() ... getPointerDimList(): the addresses
\* of the lists are handed to the scheme (intBasTrans_, refFacAr_, dimList_)
getPointer(t) ==
    /\ tpc[t] = "have"
    /\ tpc' = [tpc EXCEPT ![t] = "ptr"]
    /\ UNCHANGED <<guard_, instance_, ctorRuns, targ, tref, hist>>
    /\ UNCHANGED limVars

\* correction(vf): the scheme evaluates the face values, reading the lists
\* through its pointers, and is done with the store
correction(t) ==
    /\ tpc[t] = "ptr"
    /\ instance_.id = tref[t]
    /\ tpc' = [tpc EXCEPT ![t] = "idle"]
    /\ targ' = [targ EXCEPT ![t] = <<>>]
    /\ tref' = [tref EXCEPT ![t] = 0]
    /\ UNCHANGED <<guard_, instance_, ctorRuns, hist>>
    /\ UNCHANGED limVars

\* one scalar and one vector scheme on the processor mesh, uniform fields
InitOneField ==
    /\ mesh = MeshProc
    /\ faceFlux_ \in SurfaceFields(mesh, {1}, 0)
    /\ limFac_ = R(1)
    /\ \/ /\ Type = "scalar"
          /\ vf \in VolFields(mesh, {R(1)}, R(0))
          /\ tsfP \in SurfaceFields(mesh, {R(MaxVal)}, R(0))
          /\ tsfN \in SurfaceFields(mesh, {R(0)}, R(0))
          /\ theta = [cellI \in Cells(mesh) |-> R(0)]
       \/ /\ Type = "vector"
          /\ vf \in VolFields(mesh, {[cI \in Comps |-> R(1)]}, TypeZero)
          /\ tsfP \in SurfaceFields(mesh, {[cI \in Comps |-> R(MaxVal)]}, TypeZero)
          /\ tsfN \in SurfaceFields(mesh, {TypeZero}, TypeZero)
          /\ theta = [cellI \in Cells(mesh) |-> TypeZero]
    /\ tsfP0 = tsfP
    /\ pc = "ready"

InitInst == InitOneField /\ StoreIdle

NextInst ==
    \/ \E t \in Threads : \E k \in Keys : Call(t, k)
    \/ \E t \in Threads : BeginInit(t)
    \/ \E t \in Threads : FinishInit(t)
    \/ \E t \in Threads : Return(t)
    \/ \E t \in Threads : getPointer(t)
    \/ \E t \in Threads : correction(t)
    \/ calcLimiter
    \/ calcLimiterType

SpecInst == InitInst /\ [][NextInst]_vars

----------------------------------------------------------------------------
(* The limiter on its own: a scalar or a vector scheme, one calcLimiter call *)

Init == (InitScalar \/ InitVec) /\ StoreIdle

Next == calcLimiter \/ calcLimiterType

Spec == Init /\ [][Next]_vars

----------------------------------------------------------------------------
(* The limiter on fields that are resolved finer than the tolerance 1e-10 *)

\* cell averages two tolerances apart
FineVals == {R(2 * i * Tol) : i \in 0..MaxVal}

\* what a provisional face value differs by from the cell average on its own
\* side: a tolerance or half a tolerance, above or below
Devs == {Norm(i * Tol, 2) : i \in {-2, -1, 1, 2}}

\* a scalar scheme on the line mesh: every provisional value of an internal
\* face is the average of the cell on its side plus a deviation
InitNearTol ==
    /\ Type = "scalar"
    /\ mesh = MeshLine
    /\ faceFlux_ \in SurfaceFields(mesh, Fluxes \ {0}, 0)
    /\ limFac_ \in LimFacs \ {R(0)}
    /\ vf \in VolFields(mesh, FineVals, R(0))
    /\ \E dP, dN \in [IntFaces(mesh) -> Devs] :
        /\ tsfP = [int |-> [f \in IntFaces(mesh) |->
                                RAdd(vf.int[mesh.owner[f]], dP[f])],
                   bnd |-> [patchI \in Patches(mesh) |->
                                [i \in PatchFaces(mesh, patchI) |-> R(0)]]]
        /\ tsfN = [int |-> [f \in IntFaces(mesh) |->
                                RAdd(vf.int[mesh.neighbour[f]], dN[f])],
                   bnd |-> [patchI \in Patches(mesh) |->
                                [i \in PatchFaces(mesh, patchI) |-> R(0)]]]
    /\ theta = [cellI \in Cells(mesh) |-> R(0)]
    /\ tsfP0 = tsfP
    /\ pc = "ready"

InitTol == (InitScalar \/ InitVec \/ InitNearTol) /\ StoreIdle

SpecTol == InitTol /\ [][Next]_vars

----------------------------------------------------------------------------
(* Views used by the properties of the limiter *)

\* the components of the scheme's Type, and component cI of a value of it
CompsOf == IF Type = "scalar" THEN {0} ELSE Comps
Cmpt(x, cI) == IF Type = "scalar" THEN x ELSE x[cI]

\* the donor (upwind) cell of an internal face with non-zero flux
Donor(f) == IF faceFlux_.int[f] > 0 THEN mesh.owner[f] ELSE mesh.neighbour[f]

\* the provisional upwind-side value of an internal face with non-zero flux
Upwind(f) == IF faceFlux_.int[f] > 0 THEN tsfP0.int[f] ELSE tsfN.int[f]

\* the face value after limiting: donor average plus the returned correction
FaceValue(f, cI) == RAdd(Cmpt(vf.int[Donor(f)], cI), Cmpt(tsfP.int[f], cI))
PatchFaceValue(pf, cI) ==
    RAdd(Cmpt(vf.int[mesh.boundary[pf[1]].faceCells[pf[2]]], cI),
         Cmpt(tsfP.bnd[pf[1]][pf[2]], cI))

\* the cell averages of the immediate neighbourhood of cell c: the cell, the
\* cells that share a face with it, the patch neighbours across coupled faces
NbhdVals(c, cI) ==
    {Cmpt(vf.int[c], cI)}
    \cup {Cmpt(vf.int[mesh.owner[f]], cI) :
            f \in {g \in IntFaces(mesh) : mesh.neighbour[g] = c}}
    \cup {Cmpt(vf.int[mesh.neighbour[f]], cI) :
            f \in {g \in IntFaces(mesh) : mesh.owner[g] = c}}
    \cup {Cmpt(vf.nbr[pf[1]][pf[2]], cI) :
            pf \in {q \in CoupledFaces(mesh) :
                        mesh.boundary[q[1]].faceCells[q[2]] = c}}

\* the cell averages of all local cells
AllVals(cI) == {Cmpt(vf.int[c], cI) : c \in Cells(mesh)}

\* x is neither above every value of S nor below every value of S
Within(x, S) == (\E a \in S : RLe(a, x)) /\ (\E b \in S : RLe(x, b))

Done == pc = "done"

----------------------------------------------------------------------------
(* C1 *)

----------------------------------------------------------------------------
(* C2 *)

\* C2: with limiting factor 0 the correction at every internal face and every
\* coupled face with non-zero flux is the unlimited upwind-side provisional
\* value (tsfP for positive flux, tsfN for negative flux) minus the donor's
\* cell average, whatever theta is.
C2_UnlimitedAtZero ==
    (Done /\ limFac_ = R(0)) =>
        \A cI \in CompsOf :
            /\ \A f \in IntFaces(mesh) :
                /\ faceFlux_.int[f] > 0 =>
                    Cmpt(tsfP.int[f], cI) =
                        RSub(Cmpt(tsfP0.int[f], cI), Cmpt(vf.int[mesh.owner[f]], cI))
                /\ faceFlux_.int[f] < 0 =>
                    Cmpt(tsfP.int[f], cI) =
                        RSub(Cmpt(tsfN.int[f], cI), Cmpt(vf.int[mesh.neighbour[f]], cI))
            /\ \A pf \in CoupledFaces(mesh) :
                LET p == pf[1]
                    i == pf[2]
                    own == mesh.boundary[p].faceCells[i]
                IN /\ faceFlux_.bnd[p][i] > 0 =>
                        Cmpt(tsfP.bnd[p][i], cI) =
                            RSub(Cmpt(tsfP0.bnd[p][i], cI), Cmpt(vf.int[own], cI))
                   /\ faceFlux_.bnd[p][i] < 0 =>
                        Cmpt(tsfP.bnd[p][i], cI) =
                            RSub(Cmpt(tsfN.bnd[p][i], cI), Cmpt(vf.nbr[p][i], cI))

\* limiting factor 0, a donor whose theta is below 1, and a correction that is
\* not zero at one of its faces
C2_Witness ==
    /\ Done /\ limFac_ = R(0)
    /\ \E cI \in CompsOf : \E f \in IntFaces(mesh) :
        /\ faceFlux_.int[f] # 0
        /\ RLt(Cmpt(theta[Donor(f)], cI), R(1))
        /\ Cmpt(tsfP.int[f], cI) # R(0)

----------------------------------------------------------------------------
(* C3 *)

\* C3: at every internal face and every face of a coupled patch whose flux is
\* exactly zero, the returned correction is zero in every component.
C3_ZeroFluxZeroCorrection ==
    Done =>
        \A cI \in CompsOf :
            /\ \A f \in IntFaces(mesh) :
                faceFlux_.int[f] = 0 => Cmpt(tsfP.int[f], cI) = R(0)
            /\ \A pf \in CoupledFaces(mesh) :
                faceFlux_.bnd[pf[1]][pf[2]] = 0 =>
                    Cmpt(tsfP.bnd[pf[1]][pf[2]], cI) = R(0)

\* a zero-flux internal face and a zero-flux coupled face whose provisional
\* values differ from the cell averages beside them, limiting factor not 0
C3_Witness ==
    /\ Done /\ limFac_ # R(0)
    /\ \E f \in IntFaces(mesh) :
        /\ faceFlux_.int[f] = 0
        /\ tsfP0.int[f] # vf.int[mesh.owner[f]]
        /\ tsfN.int[f] # vf.int[mesh.neighbour[f]]
    /\ \E pf \in CoupledFaces(mesh) :
        /\ faceFlux_.bnd[pf[1]][pf[2]] = 0
        /\ tsfP0.bnd[pf[1]][pf[2]] # vf.int[mesh.boundary[pf[1]].faceCells[pf[2]]]

----------------------------------------------------------------------------
(* C4 *)

\* every cell average, every patch-neighbour value and every provisional value
\* at an internal or coupled face is c in every component
Uniform(c) ==
    \A cI \in CompsOf :
        /\ \A k \in Cells(mesh) : Cmpt(vf.int[k], cI) = c
        /\ \A f \in IntFaces(mesh) :
            Cmpt(tsfP0.int[f], cI) = c /\ Cmpt(tsfN.int[f], cI) = c
        /\ \A pf \in CoupledFaces(mesh) :
            /\ Cmpt(vf.nbr[pf[1]][pf[2]], cI) = c
            /\ Cmpt(tsfP0.bnd[pf[1]][pf[2]], cI) = c
            /\ Cmpt(tsfN.bnd[pf[1]][pf[2]], cI) = c

\* C4: constant preservation: when the field and the provisional face values
\* are one value c everywhere, the correction is zero at every internal and
\* every coupled face, for any limiting factor and any sign of the flux.
C4_ConstantPreserved ==
    (Done /\ \E c \in Vals : Uniform(c)) =>
        \A cI \in CompsOf :
            /\ \A f \in IntFaces(mesh) : Cmpt(tsfP.int[f], cI) = R(0)
            /\ \A pf \in CoupledFaces(mesh) : Cmpt(tsfP.bnd[pf[1]][pf[2]], cI) = R(0)

\* a uniform field that is not zero, a limiting factor strictly between 0 and
\* 1, inflow through the coupled face and outflow through the internal face
C4_Witness ==
    /\ Done
    /\ \E c \in Vals \ {R(0)} : Uniform(c)
    /\ RLt(R(0), limFac_) /\ RLt(limFac_, R(1))
    /\ \E f \in IntFaces(mesh) : faceFlux_.int[f] > 0
    /\ \E pf \in CoupledFaces(mesh) : faceFlux_.bnd[pf[1]][pf[2]] < 0

----------------------------------------------------------------------------
(* C9 *)

\* a vector field with every component but cI set to zero
KeepCmpt(x, cI) == [cJ \in Comps |-> IF cJ = cI THEN x[cJ] ELSE R(0)]
KeepSurface(s, cI) ==
    [ int |-> [f \in DOMAIN s.int |-> KeepCmpt(s.int[f], cI)],
      bnd |-> [p \in DOMAIN s.bnd |->
                [i \in DOMAIN s.bnd[p] |-> KeepCmpt(s.bnd[p][i], cI)]] ]
KeepVol(v, cI) ==
    [ int |-> [c \in DOMAIN v.int |-> KeepCmpt(v.int[c], cI)],
      nbr |-> [p \in DOMAIN v.nbr |->
                [i \in DOMAIN v.nbr[p] |-> KeepCmpt(v.nbr[p][i], cI)]] ]

\* C9: the generic limiter acts on each component independently: component cI
\* of every correction is the one the limiter returns when all the other
\* components of the cell averages, of tsfP and tsfN and of the patch-neighbour
\* values are replaced by zero (so two inputs that agree in component cI, the
\* flux and the limiting factor give the same component cI of the output).
C9_ComponentsIndependent ==
    (Done /\ Type = "vector") =>
        \A cI \in Comps :
            LET alone == CalcLimiter(mesh, faceFlux_, limFac_, KeepVol(vf, cI),
                                     KeepSurface(tsfP0, cI), KeepSurface(tsfN, cI))
            IN /\ \A f \in IntFaces(mesh) : tsfP.int[f][cI] = alone.int[f][cI]
               /\ \A pf \in CoupledFaces(mesh) :
                    tsfP.bnd[pf[1]][pf[2]][cI] = alone.bnd[pf[1]][pf[2]][cI]

\* a vector field whose two components got different thetas in one cell and
\* different corrections, neither zero, at a face that cell is the donor of,
\* with limiting switched on
C9_Witness ==
    /\ Done /\ Type = "vector" /\ limFac_ # R(0)
    /\ \E f \in IntFaces(mesh) :
        /\ faceFlux_.int[f] # 0
        /\ theta[Donor(f)][0] # theta[Donor(f)][1]
        /\ tsfP.int[f][0] # tsfP.int[f][1]
        /\ tsfP.int[f][0] # R(0)
        /\ tsfP.int[f][1] # R(0)

----------------------------------------------------------------------------
(* C10 *)

\* component cI of a vector field, as a scalar field
CmptSurface(s, cI) ==
    [ int |-> [f \in DOMAIN s.int |-> s.int[f][cI]],
      bnd |-> [p \in DOMAIN s.bnd |-> [i \in DOMAIN s.bnd[p] |-> s.bnd[p][i][cI]]] ]
CmptVol(v, cI) ==
    [ int |-> [c \in DOMAIN v.int |-> v.int[c][cI]],
      nbr |-> [p \in DOMAIN v.nbr |-> [i \in DOMAIN v.nbr[p] |-> v.nbr[p][i][cI]]] ]

\* C10: the generic limiter restricted to a component computes the theta and
\* returns the corrections (at every internal and every coupled face) that the
\* scalar specialisation computes on that component's values, for the same
\* mesh, flux and limiting factor.
C10_LockStep ==
    (Done /\ Type = "vector") =>
        \A cI \in Comps :
            LET sv == CmptVol(vf, cI)
                sP == CmptSurface(tsfP0, cI)
                sN == CmptSurface(tsfN, cI)
                sTheta == ScalarTheta(mesh, sv.int, sP, sN)
                sOut == ScalarCalcLimiter(mesh, faceFlux_, limFac_, sv, sP, sN)
            IN /\ \A c \in Cells(mesh) : theta[c][cI] = sTheta[c]
               /\ \A f \in IntFaces(mesh) : tsfP.int[f][cI] = sOut.int[f]
               /\ \A pf \in CoupledFaces(mesh) :
                    tsfP.bnd[pf[1]][pf[2]][cI] = sOut.bnd[pf[1]][pf[2]]

\* a vector field with a theta strictly between 0 and 1, a correction that is
\* not zero at an internal face and one at a coupled face with inflow
C10_Witness ==
    /\ Done /\ Type = "vector" /\ limFac_ # R(0)
    /\ \E cI \in Comps :
        /\ \E c \in Cells(mesh) : RLt(R(0), theta[c][cI]) /\ RLt(theta[c][cI], R(1))
        /\ \E f \in IntFaces(mesh) : faceFlux_.int[f] # 0 /\ tsfP.int[f][cI] # R(0)
        /\ \E pf \in CoupledFaces(mesh) :
            /\ faceFlux_.bnd[pf[1]][pf[2]] < 0
            /\ tsfP.bnd[pf[1]][pf[2]][cI] # R(0)

----------------------------------------------------------------------------
(* C5 *)

\* C5: after any sequence of WENOBase::instance calls that all passed the same
\* key, the constructor has run exactly once and every call has returned the
\* same instance.
C5_BuiltOnceReturnedAlways ==
    (Len(hist) > 0 /\ \A i, j \in DOMAIN hist : hist[i].key = hist[j].key) =>
        /\ ctorRuns = 1
        /\ \A i, j \in DOMAIN hist : hist[i].ref = hist[j].ref
        /\ \A i \in DOMAIN hist : hist[i].ref = instance_.id /\ instance_.complete

\* the bounded number of calls, all with one key, have returned
C5_Witness ==
    /\ Len(hist) = MaxCalls
    /\ \A i, j \in DOMAIN hist : hist[i].key = hist[j].key

----------------------------------------------------------------------------
(* C6 *)

\* C6 as stated: every WENOBase::instance call returns an instance that was
\* constructed for the mesh and the polynomial order the call passed.
C6_InstanceOfPassedKey ==
    \A i \in DOMAIN hist : hist[i].builtFor = hist[i].key

----------------------------------------------------------------------------
(* C7 *)

\* C7: however the callers interleave, the constructor runs at most once, at
\* most one caller is inside it, and a caller holds a reference only once the
\* construction has completed.
C7_AtMostOnceAndComplete ==
    /\ ctorRuns <= 1
    /\ Cardinality({t \in Threads : tpc[t] = "ctor"}) <= 1
    /\ \A t \in Threads :
        tref[t] # 0 => (guard_ = "done" /\ instance_.complete /\ tref[t] = instance_.id)
    /\ \A i \in DOMAIN hist : hist[i].ref = 1

\* two callers made the first request for one key at the same time: one is in
\* the constructor, the other waits at the declaration
C7_Witness ==
    /\ Len(hist) = 0
    /\ \E t, u \in Threads :
        /\ t # u
        /\ tpc[t] = "ctor"
        /\ tpc[u] = "enter"
        /\ targ[t] = targ[u]

----------------------------------------------------------------------------
(* C8 *)

\* C8: once the Stencil Store is constructed, no later operation (instance,
\* the accessors, the evaluation, calcLimiter) changes any of its lists.
C8_TablesFrozen == [][instance_.complete => instance_' = instance_]_vars

\* after the construction a further call has returned, a scheme has fetched
\* the pointers and calcLimiter has run
C8_Witness ==
    /\ instance_.complete
    /\ Len(hist) >= 2
    /\ \E t \in Threads : tpc[t] = "ptr"
    /\ Done

----------------------------------------------------------------------------
(* C11 *)

\* C11: at every face of a coupled patch with negative flux (inflow from the
\* neighbouring partition) no limiting is applied: for every limiting factor,
\* 1 included, and whatever the theta of the local cell, the correction is the
\* neighbour-side provisional value less the patch-neighbour cell average.
C11_CoupledInflowUnlimited ==
    Done =>
        \A cI \in CompsOf : \A pf \in CoupledFaces(mesh) :
            faceFlux_.bnd[pf[1]][pf[2]] < 0 =>
                Cmpt(tsfP.bnd[pf[1]][pf[2]], cI) =
                    RSub(Cmpt(tsfN.bnd[pf[1]][pf[2]], cI), Cmpt(vf.nbr[pf[1]][pf[2]], cI))

\* full limiting, inflow through a coupled face whose local cell has a theta
\* below 1, and a neighbour-side value that differs from the patch-neighbour
\* average and from the owner-side value
C11_Witness ==
    /\ Done /\ limFac_ = R(1)
    /\ \E cI \in CompsOf : \E pf \in CoupledFaces(mesh) :
        LET own == mesh.boundary[pf[1]].faceCells[pf[2]]
        IN /\ faceFlux_.bnd[pf[1]][pf[2]] < 0
           /\ RLt(Cmpt(theta[own], cI), R(1))
           /\ Cmpt(tsfN.bnd[pf[1]][pf[2]], cI) # Cmpt(vf.nbr[pf[1]][pf[2]], cI)
           /\ Cmpt(tsfN.bnd[pf[1]][pf[2]], cI) # Cmpt(tsfP0.bnd[pf[1]][pf[2]], cI)

----------------------------------------------------------------------------
(* C12 *)

\* the correction c is the unlimited correction u scaled by
\* 1 - limFac_*(1 - th), with th and that factor both in [0, 1]; so c is no
\* larger than u in magnitude and has no opposite sign
Scaled(c, u, th) ==
    LET factor == RSub(R(1), RMul(limFac_, RSub(R(1), th)))
    IN /\ RLe(R(0), th) /\ RLe(th, R(1))
       /\ RLe(R(0), factor) /\ RLe(factor, R(1))
       /\ c = RMul(u, factor)
       /\ RLe(mag(c), mag(u))
       /\ RLe(R(0), RMul(c, u))

\* C12: for a limiting factor in [0, 1], at every internal face with non-zero
\* flux and every coupled face with outflow the returned correction is the
\* unlimited correction (upwind provisional value less the donor's average)
\* times 1 - limFac_*(1 - theta[donor]), where theta[donor] and the factor lie
\* in [0, 1]: limiting never enlarges the correction nor reverses its sign.
C12_ScaledByFactor ==
    (Done /\ RLe(R(0), limFac_) /\ RLe(limFac_, R(1))) =>
        \A cI \in CompsOf :
            /\ \A f \in IntFaces(mesh) :
                faceFlux_.int[f] # 0 =>
                    Scaled(Cmpt(tsfP.int[f], cI),
                           RSub(Cmpt(Upwind(f), cI), Cmpt(vf.int[Donor(f)], cI)),
                           Cmpt(theta[Donor(f)], cI))
            /\ \A pf \in CoupledFaces(mesh) :
                LET own == mesh.boundary[pf[1]].faceCells[pf[2]]
                IN faceFlux_.bnd[pf[1]][pf[2]] > 0 =>
                    Scaled(Cmpt(tsfP.bnd[pf[1]][pf[2]], cI),
                           RSub(Cmpt(tsfP0.bnd[pf[1]][pf[2]], cI), Cmpt(vf.int[own], cI)),
                           Cmpt(theta[own], cI))

\* a limiting factor strictly between 0 and 1, an internal face whose donor
\* has a theta strictly between 0 and 1 and whose unlimited correction is not
\* zero, and a coupled face with outflow whose correction was made smaller
C12_Witness ==
    /\ Done /\ RLt(R(0), limFac_) /\ RLt(limFac_, R(1))
    /\ \E cI \in CompsOf :
        /\ \E f \in IntFaces(mesh) :
            /\ faceFlux_.int[f] # 0
            /\ RLt(R(0), Cmpt(theta[Donor(f)], cI))
            /\ RLt(Cmpt(theta[Donor(f)], cI), R(1))
            /\ Cmpt(Upwind(f), cI) # Cmpt(vf.int[Donor(f)], cI)
        /\ \E pf \in CoupledFaces(mesh) :
            LET own == mesh.boundary[pf[1]].faceCells[pf[2]]
            IN /\ faceFlux_.bnd[pf[1]][pf[2]] > 0
               /\ RLt(mag(Cmpt(tsfP.bnd[pf[1]][pf[2]], cI)),
                      mag(RSub(Cmpt(tsfP0.bnd[pf[1]][pf[2]], cI), Cmpt(vf.int[own], cI))))

----------------------------------------------------------------------------
(* C13 *)

\* x is less than a tolerance below the least value of S and less than a
\* tolerance above the greatest
WithinTol(x, S) ==
    /\ \E a \in S : RLt(RSub(a, R(Tol)), x)
    /\ \E b \in S : RLt(x, RAdd(b, R(Tol)))

\* C13: with limiting factor 1, whatever the provisional face values, at every
\* internal face with non-zero flux the limited face value (donor average plus
\* correction) lies between minPhi and maxPhi of the whole internal field, up
\* to the tolerance 1e-10 of the theta computation: it leaves that range by
\* less than the tolerance.
C13_WithinFieldBoundsTol ==
    (Done /\ limFac_ = R(1)) =>
        \A cI \in CompsOf : \A f \in IntFaces(mesh) :
            faceFlux_.int[f] # 0 => WithinTol(FaceValue(f, cI), AllVals(cI))

\* full limiting, and two internal faces: at one a provisional value less than
\* a tolerance above the field maximum was let through, at the other a
\* provisional value a tolerance or more below the field minimum was cut back
C13_Witness ==
    /\ Done /\ limFac_ = R(1)
    /\ \E cI \in CompsOf : \E f, g \in IntFaces(mesh) :
        /\ faceFlux_.int[f] # 0
        /\ \A a \in AllVals(cI) : RLt(a, FaceValue(f, cI))
        /\ faceFlux_.int[g] # 0
        /\ \A a \in AllVals(cI) : RLe(Cmpt(Upwind(g), cI), RSub(a, R(Tol)))
        /\ RLt(Cmpt(theta[Donor(g)], cI), R(1))

----------------------------------------------------------------------------
(* C14 *)

\* C14: weights() and calcLimiter pick the same upwind donor: at every
\* internal face with non-zero flux, the cell to which weights() gives weight 1
\* (the owner for positive flux, the neighbour for negative flux) is the cell
\* whose average calcLimiter subtracted and whose theta it used, so that
\* w*vf[owner] + (1 - w)*vf[neighbour] + correction is the limited
\* upwind-side value limFac_*(theta*(t - v) + v) + (1 - limFac_)*t of that cell.
C14_DonorConsistent ==
    Done =>
        \A cI \in CompsOf : \A f \in IntFaces(mesh) :
            faceFlux_.int[f] # 0 =>
                LET w == weights(mesh, faceFlux_).int[f]
                    d == IF w = 1 THEN mesh.owner[f] ELSE mesh.neighbour[f]
                    t == IF w = 1 THEN Cmpt(tsfP0.int[f], cI) ELSE Cmpt(tsfN.int[f], cI)
                    v == Cmpt(vf.int[d], cI)
                    th == Cmpt(theta[d], cI)
                IN /\ w = 1 <=> faceFlux_.int[f] > 0
                   /\ w = 0 <=> faceFlux_.int[f] < 0
                   /\ RAdd(RAdd(RMul(R(w), Cmpt(vf.int[mesh.owner[f]], cI)),
                                RMul(R(1 - w), Cmpt(vf.int[mesh.neighbour[f]], cI))),
                           Cmpt(tsfP.int[f], cI))
                        = RAdd(RMul(limFac_, RAdd(RMul(th, RSub(t, v)), v)),
                               RMul(RSub(R(1), limFac_), t))

\* limiting switched on, and a face with negative flux whose owner and
\* neighbour differ in their averages, in their thetas and in their
\* provisional values, the correction being neither zero nor unlimited
C14_Witness ==
    /\ Done /\ limFac_ # R(0)
    /\ \E cI \in CompsOf : \E f \in IntFaces(mesh) :
        /\ faceFlux_.int[f] < 0
        /\ Cmpt(vf.int[mesh.owner[f]], cI) # Cmpt(vf.int[mesh.neighbour[f]], cI)
        /\ Cmpt(theta[mesh.owner[f]], cI) # Cmpt(theta[mesh.neighbour[f]], cI)
        /\ Cmpt(tsfP0.int[f], cI) # Cmpt(tsfN.int[f], cI)
        /\ RLt(Cmpt(theta[mesh.neighbour[f]], cI), R(1))
        /\ Cmpt(tsfP.int[f], cI) # R(0)

====
